---- MODULE Spec2Model ----
(***************************************************************************)
(* The four GitHub tools of github_issue_management/tools/github_tools.py  *)
(* (GetNewIssues, AddLabelToIssue, AssignIssue, CommentOnIssue) run        *)
(* against a remote issue tracker.  A tool call is one action: it reads    *)
(* GITHUB_TOKEN, talks to the tracker, and returns a text.  The crew runs  *)
(* its tasks sequentially (crew.py, Process.sequential), so one call is    *)
(* in flight at a time and its text is taken before the next call.         *)
(*                                                                         *)
(* Python strings that the code inspects are sequences of tokens: a        *)
(* comment body is a sequence of characters, a `since` argument is a       *)
(* sequence <<date, zone designator>>.  A returned text is the pair of its *)
(* leading marker and the rest of its format string, with the values the   *)
(* f-string interpolates kept in fields of their own.  The two emoji that  *)
(* begin the success texts are written "[check]" and "[info]".             *)
(***************************************************************************)
EXTENDS Integers, Sequences, FiniteSets, TLC

VARIABLES
    GITHUB_TOKEN,       \* the environment variable the tools read
    created_at_aware,   \* whether the installed PyGithub yields timezone-aware created_at
    numEntities,        \* the tracker holds the entities numbered 1..numEntities
    pull_requests,      \* the numbers of the entities that are pull requests
    closed,             \* the numbers of the closed entities
    catalog,            \* the repository's label catalog
    issue_labels,       \* number -> set of label names
    issue_assignees,    \* number -> set of logins
    issue_comments,     \* number -> sequence of comment bodies
    last                \* the tool call that just returned (op = "idle": none)

vars == <<GITHUB_TOKEN, created_at_aware, numEntities, pull_requests, closed,
          catalog, issue_labels, issue_assignees, issue_comments, last>>

----------------------------------------------------------------------------
(* Bounds of the model *)

\* longest labels / assignees list handed to a tool
MaxLen == 2
\* longest comment stream of an issue
MaxComments == 1
\* most entities the tracker holds in the listing specification
MaxEntities == 22

(* Constants of the program *)

\* issues[:20]
Window == 20
\* repo_labels[:10]
AvailableShown == 10
\* comment[:100]
PreviewLen == 100

----------------------------------------------------------------------------
(* Input domains *)

Repositories == {"octocat/Hello-World", "octocat/No-Such-Repo"}
ExistingRepositories == {"octocat/Hello-World"}

LabelOrder == <<"bug", "enhancement", "ghost-label">>
LabelNames == {"bug", "enhancement", "ghost-label"}
InitialCatalog == {"bug", "enhancement"}

LoginOrder == <<"alice", "mallory">>
Logins == {"alice", "mallory"}
\* the users the tracker accepts as assignees of the repository
Assignable == {"alice"}

IssueNumbers == {1, 2}

CommentBodies ==
    { <<>>, <<" ">>, <<" ", "\n">>, <<"o", "k">>, <<" ", "o", "k", " ">> }
Whitespace == {" ", "\n", "\t"}

DateTokens == {"1970-01-01T00:00:01", "1970-01-01T00:00:02", "1970-01-01T00:00:21"}
SinceValues ==
    { <<>>, <<"yesterday">>, <<"Z">> }
    \cup { <<d>> : d \in DateTokens }
    \cup { <<d, z>> : d \in DateTokens, z \in {"Z", "+00:00"} }

\* what the remote does to this call, beyond what the tracker's state decides
Faults == {"none", "forbidden", "unprocessable", "server_error", "network"}

----------------------------------------------------------------------------
(* Sequences *)

Range(s) == {s[i] : i \in DOMAIN s}
Min(a, b) == IF a < b THEN a ELSE b
SeqsUpTo(S, n) == UNION {[1..k -> S] : k \in 0..n}
\* s[:n]
Take(s, n) == SubSeq(s, 1, Min(n, Len(s)))
\* the members of S in the order the tracker lists them
NamesOf(S, order) == SelectSeq(order, LAMBDA x : x \in S)

----------------------------------------------------------------------------
(* Results and exceptions *)

Tracker == [labels |-> issue_labels, assignees |-> issue_assignees,
            comments |-> issue_comments]

NoException == [type |-> "none", status |-> 0, site |-> ""]
GithubException(status, site) ==
    [type |-> "GithubException", status |-> status, site |-> site]
OtherException(what, site) == [type |-> what, status |-> 0, site |-> site]

\* a returned text: marker and message are the format string, the rest its values
Text(kind, marker, message) ==
    [kind |-> kind, marker |-> marker, message |-> message,
     number |-> 0, repository |-> "", names |-> <<>>, current |-> <<>>,
     available |-> <<>>, items |-> <<>>, needs_processing |-> 0,
     preview |-> <<>>, detail |-> NoException]

NoText == Text("none", "", "")
RaisedText(e) == [Text("Raised", "", "") EXCEPT !.detail = e]

\* what the body of a try block comes to: a return or a raise (exc), the
\* tracker after it, the remote calls and remote writes made, and the exception
\* a remote call raised (seen), whichever except clause took it
Returned(text, t, calls, writes, locals) ==
    [exc |-> NoException, seen |-> NoException, ret |-> text, t |-> t,
     calls |-> calls, writes |-> writes,
     existing |-> locals[1], to_add |-> locals[2]]
Raises(e, t, calls, writes, locals) ==
    [exc |-> e, seen |-> e, ret |-> NoText, t |-> t,
     calls |-> calls, writes |-> writes,
     existing |-> locals[1], to_add |-> locals[2]]
NoLocals == << <<>>, <<>> >>

\* `not github_token`
TokenMissingUnsetOnly(token) == ~token.set
TokenMissing(token) == ~token.set \/ token.value = ""

CredentialMissingText ==
    Text("CredentialMissing", "Error:",
         " GITHUB_TOKEN environment variable is not set.")

\* g.get_repo(repository), the first remote call of every tool: the exception
\* it raises, if any
get_repo(fault, repository) ==
    IF fault = "server_error" THEN GithubException(500, "get_repo")
    ELSE IF fault = "network" THEN OtherException("ConnectionError", "get_repo")
    ELSE IF repository \notin ExistingRepositories
         THEN GithubException(404, "get_repo")
    ELSE NoException

\* repo.get_issue(issue_number): the issue object, a snapshot of the remote issue
get_issue_fails(issue_number) == issue_number \notin 1..numEntities
get_issue(t, issue_number) ==
    [number |-> issue_number,
     labels |-> NamesOf(t.labels[issue_number], LabelOrder),
     assignees |-> NamesOf(t.assignees[issue_number], LoginOrder)]

\* a remote write under `fault`
write_fault(fault, site) ==
    IF fault = "forbidden" THEN GithubException(403, site)
    ELSE IF fault = "unprocessable" THEN GithubException(422, site)
    ELSE NoException

----------------------------------------------------------------------------
(* AddLabelToIssue *)

\* [label for label in labels if label not in existing_labels]
LabelsToAdd(labels, existing_labels) ==
    SelectSeq(labels, LAMBDA l : l \notin Range(existing_labels))

\* [label for label in labels_to_add if label not in repo_labels]
InvalidLabelsUnchecked(labels_to_add, repo_labels) ==
    SelectSeq(labels_to_add, LAMBDA l : l \notin Range(labels_to_add))
InvalidLabels(labels_to_add, repo_labels) ==
    SelectSeq(labels_to_add, LAMBDA l : l \notin Range(repo_labels))

\* issue.add_to_labels(*names): POST .../labels.  The tracker adds the names to
\* the issue's labels; PyGithub drops the response, so the issue object keeps the
\* labels it was fetched with.
add_to_labels_replacing(t, issue, names) ==
    [t |-> [t EXCEPT !.labels[issue.number] = Range(names)], issue |-> issue]
add_to_labels(t, issue, names) ==
    [t |-> [t EXCEPT !.labels[issue.number] = @ \cup Range(names)],
     issue |-> issue]

AddLabelToIssueBody(t, token, fault, repository, issue_number, labels) ==
    IF TokenMissing(token)
    THEN Returned(CredentialMissingText, t, 0, 0, NoLocals)
    ELSE IF get_repo(fault, repository) # NoException
    THEN Raises(get_repo(fault, repository), t, 1, 0, NoLocals)
    ELSE IF get_issue_fails(issue_number)
    THEN Raises(GithubException(404, "get_issue"), t, 2, 0, NoLocals)
    ELSE
    LET issue == get_issue(t, issue_number)
        existing_labels == issue.labels
        labels_to_add == LabelsToAdd(labels, existing_labels)
        locals == <<existing_labels, labels_to_add>>
    IN  IF labels_to_add # <<>>
        THEN
          LET repo_labels == NamesOf(catalog, LabelOrder)
              invalid_labels == InvalidLabels(labels_to_add, repo_labels)
          IN  IF invalid_labels # <<>>
              THEN Returned(
                     [Text("InvalidLabels", "Error:",
                           " Labels {invalid_labels} do not exist in the repository. Available labels: {repo_labels[:10]}...")
                        EXCEPT !.names = invalid_labels,
                               !.available = Take(repo_labels, AvailableShown)],
                     t, 3, 0, locals)
              ELSE IF write_fault(fault, "add_to_labels") # NoException
              THEN Raises(write_fault(fault, "add_to_labels"), t, 4, 0, locals)
              ELSE IF ~(Range(labels_to_add) \subseteq catalog)
              THEN \* the tracker refuses a name that is not a label of the repository
                   Raises(GithubException(422, "add_to_labels"), t, 4, 0, locals)
              ELSE
                LET after == add_to_labels(t, issue, labels_to_add)
                    updated_labels == after.issue.labels
                IN  Returned(
                      [Text("Added", "[check]",
                            " Successfully added labels {labels_to_add} to issue #{issue_number}.\nCurrent labels: {updated_labels}")
                         EXCEPT !.names = labels_to_add,
                                !.number = issue_number,
                                !.current = updated_labels],
                      after.t, 4, 1, locals)
        ELSE Returned(
               [Text("NoOp", "[info]",
                     " All labels already exist on issue #{issue_number}.\nCurrent labels: {existing_labels}")
                  EXCEPT !.number = issue_number, !.current = existing_labels],
               t, 2, 0, locals)

\* the except clauses of AddLabelToIssue._run
AddLabelToIssueExcept(e, repository, issue_number) ==
    IF e.type = "GithubException"
    THEN IF e.status = 404
         THEN [Text("NotFound", "Error:",
                    " Issue #{issue_number} not found in repository {repository}.")
                 EXCEPT !.number = issue_number, !.repository = repository]
         ELSE IF e.status = 422
         THEN Text("Unprocessable", "Error:",
                   " Invalid label name(s). Please check that labels exist in the repository.")
         ELSE [Text("GithubApiError", "GitHub API Error:", " {str(e)}")
                 EXCEPT !.detail = e]
    ELSE [Text("UnexpectedError", "Error adding labels:", " {str(e)}")
            EXCEPT !.detail = e]

\* AddLabelToIssue._run as a function of the tracker and the call
AddLabelToIssueRun(t, token, fault, repository, issue_number, labels) ==
    LET b == AddLabelToIssueBody(t, token, fault, repository, issue_number, labels)
    IN  [b EXCEPT !.ret = IF b.exc = NoException THEN b.ret
                          ELSE AddLabelToIssueExcept(b.exc, repository, issue_number)]

----------------------------------------------------------------------------
(* AssignIssue *)

\* [assignee for assignee in assignees if assignee not in existing_assignees]
AssigneesToAddUnfiltered(assignees, existing_assignees) == assignees
AssigneesToAdd(assignees, existing_assignees) ==
    SelectSeq(assignees, LAMBDA a : a \notin Range(existing_assignees))

\* issue.add_to_assignees(*names): POST .../assignees.  The tracker answers
\* with the issue, and PyGithub refreshes the issue object from the answer.
add_to_assignees(t, issue, names) ==
    LET t2 == [t EXCEPT !.assignees[issue.number] = @ \cup Range(names)]
    IN  [t |-> t2, issue |-> get_issue(t2, issue.number)]

\* the inner except clause, around add_to_assignees
AssignIssueInnerExcept(e, assignees_to_add) ==
    IF e.status = 422
    THEN [Text("Unprocessable", "Error:",
               " One or more assignees ({assignees_to_add}) may not have access to the repository or do not exist.")
            EXCEPT !.names = assignees_to_add]
    ELSE RaisedText(e)

AssignIssueBody(t, token, fault, repository, issue_number, assignees) ==
    IF TokenMissing(token)
    THEN Returned(CredentialMissingText, t, 0, 0, NoLocals)
    ELSE IF get_repo(fault, repository) # NoException
    THEN Raises(get_repo(fault, repository), t, 1, 0, NoLocals)
    ELSE IF get_issue_fails(issue_number)
    THEN Raises(GithubException(404, "get_issue"), t, 2, 0, NoLocals)
    ELSE
    LET issue == get_issue(t, issue_number)
        existing_assignees == issue.assignees
        assignees_to_add == AssigneesToAdd(assignees, existing_assignees)
        locals == <<existing_assignees, assignees_to_add>>
        \* what add_to_assignees raises, if it does: the remote's fault, or its
        \* refusal of a batch that names a user it cannot assign
        refused ==
            IF write_fault(fault, "add_to_assignees") # NoException
            THEN write_fault(fault, "add_to_assignees")
            ELSE IF ~(Range(assignees_to_add) \subseteq Assignable)
            THEN GithubException(422, "add_to_assignees")
            ELSE NoException
    IN  IF assignees_to_add # <<>>
        THEN IF refused # NoException
             THEN LET inner == AssignIssueInnerExcept(refused, assignees_to_add)
                  IN  IF inner.kind = "Raised"
                      THEN Raises(refused, t, 3, 0, locals)
                      ELSE [Returned(inner, t, 3, 0, locals)
                              EXCEPT !.seen = refused]
             ELSE
               LET after == add_to_assignees(t, issue, assignees_to_add)
                   updated_assignees == after.issue.assignees
               IN  Returned(
                     [Text("Added", "[check]",
                           " Successfully assigned {assignees_to_add} to issue #{issue_number}.\nCurrent assignees: {updated_assignees}")
                        EXCEPT !.names = assignees_to_add,
                               !.number = issue_number,
                               !.current = updated_assignees],
                     after.t, 3, 1, locals)
        ELSE Returned(
               [Text("NoOp", "[info]",
                     " All assignees already assigned to issue #{issue_number}.\nCurrent assignees: {existing_assignees}")
                  EXCEPT !.number = issue_number, !.current = existing_assignees],
               t, 2, 0, locals)

\* the outer except clauses of AssignIssue._run
AssignIssueExcept(e, repository, issue_number) ==
    IF e.type = "GithubException"
    THEN IF e.status = 404
         THEN [Text("NotFound", "Error:",
                    " Issue #{issue_number} not found in repository {repository}.")
                 EXCEPT !.number = issue_number, !.repository = repository]
         ELSE [Text("GithubApiError", "GitHub API Error:", " {str(e)}")
                 EXCEPT !.detail = e]
    ELSE [Text("UnexpectedError", "Error assigning issue:", " {str(e)}")
            EXCEPT !.detail = e]

AssignIssueRun(t, token, fault, repository, issue_number, assignees) ==
    LET b == AssignIssueBody(t, token, fault, repository, issue_number, assignees)
    IN  [b EXCEPT !.ret = IF b.exc = NoException THEN b.ret
                          ELSE AssignIssueExcept(b.exc, repository, issue_number)]

----------------------------------------------------------------------------
(* CommentOnIssue *)

\* comment.strip()
RECURSIVE lstrip(_)
lstrip(s) ==
    IF s # <<>> /\ Head(s) \in Whitespace THEN lstrip(Tail(s)) ELSE s
RECURSIVE rstrip(_)
rstrip(s) ==
    IF s # <<>> /\ s[Len(s)] \in Whitespace
    THEN rstrip(SubSeq(s, 1, Len(s) - 1)) ELSE s
strip(s) == rstrip(lstrip(s))

\* `not comment or not comment.strip()`
CommentIsEmptyUnstripped(comment) == comment = <<>>
CommentIsEmpty(comment) == comment = <<>> \/ strip(comment) = <<>>

\* comment[:100] + "..." if len(comment) > 100 else comment
CommentPreview(comment) ==
    IF Len(comment) > PreviewLen
    THEN Take(comment, PreviewLen) \o <<".", ".", ".">>
    ELSE comment

\* issue.create_comment(comment): POST .../comments
create_comment(t, issue_number, comment) ==
    [t EXCEPT !.comments[issue_number] = Append(@, comment)]

CommentOnIssueBody(t, token, fault, repository, issue_number, comment) ==
    IF TokenMissing(token)
    THEN Returned(CredentialMissingText, t, 0, 0, NoLocals)
    ELSE IF CommentIsEmpty(comment)
    THEN Returned(Text("EmptyComment", "Error:", " Comment cannot be empty."),
                  t, 0, 0, NoLocals)
    ELSE IF get_repo(fault, repository) # NoException
    THEN Raises(get_repo(fault, repository), t, 1, 0, NoLocals)
    ELSE IF get_issue_fails(issue_number)
    THEN Raises(GithubException(404, "get_issue"), t, 2, 0, NoLocals)
    ELSE IF write_fault(fault, "create_comment") # NoException
    THEN Raises(write_fault(fault, "create_comment"), t, 3, 0, NoLocals)
    ELSE Returned(
           [Text("Commented", "[check]",
                 " Successfully added comment to issue #{issue_number}.\nComment preview: {comment_preview}")
              EXCEPT !.number = issue_number, !.preview = CommentPreview(comment)],
           create_comment(t, issue_number, comment), 3, 1, NoLocals)

\* the except clauses of CommentOnIssue._run
CommentOnIssueExceptNoForbidden(e, repository, issue_number) ==
    IF e.type = "GithubException"
    THEN IF e.status = 404
         THEN [Text("NotFound", "Error:",
                    " Issue #{issue_number} not found in repository {repository}.")
                 EXCEPT !.number = issue_number, !.repository = repository]
         ELSE [Text("GithubApiError", "GitHub API Error:", " {str(e)}")
                 EXCEPT !.detail = e]
    ELSE [Text("UnexpectedError", "Error adding comment:", " {str(e)}")
            EXCEPT !.detail = e]
CommentOnIssueExcept(e, repository, issue_number) ==
    IF e.type = "GithubException"
    THEN IF e.status = 404
         THEN [Text("NotFound", "Error:",
                    " Issue #{issue_number} not found in repository {repository}.")
                 EXCEPT !.number = issue_number, !.repository = repository]
         ELSE IF e.status = 403
         THEN Text("PermissionDenied", "Error:",
                   " Permission denied. Check that GITHUB_TOKEN has write access to issues.")
         ELSE [Text("GithubApiError", "GitHub API Error:", " {str(e)}")
                 EXCEPT !.detail = e]
    ELSE [Text("UnexpectedError", "Error adding comment:", " {str(e)}")
            EXCEPT !.detail = e]

CommentOnIssueRun(t, token, fault, repository, issue_number, comment) ==
    LET b == CommentOnIssueBody(t, token, fault, repository, issue_number, comment)
    IN  [b EXCEPT !.ret = IF b.exc = NoException THEN b.ret
                          ELSE CommentOnIssueExcept(b.exc, repository, issue_number)]

----------------------------------------------------------------------------
(* GetNewIssues *)

\* issue.created_at: entity n was created n seconds into 1970
CreatedAt(n) == n
DateSeconds(d) ==
    CASE d = "1970-01-01T00:00:01" -> 1
      [] d = "1970-01-01T00:00:02" -> 2
      [] d = "1970-01-01T00:00:21" -> 21
      [] OTHER -> 0

\* repo.get_issues(state="open", sort="created", direction="desc")
RECURSIVE NewestFirst(_)
NewestFirst(S) ==
    IF S = {} THEN <<>>
    ELSE LET m == CHOOSE x \in S : \A y \in S : CreatedAt(y) <= CreatedAt(x)
         IN  <<m>> \o NewestFirst(S \ {m})
get_issues == NewestFirst({n \in 1..numEntities : n \notin closed})

\* issues[:20]
RecentIssuesUnbounded(issues) == issues
RecentIssues(issues) == Take(issues, Window)

\* since.replace("Z", "+00:00")
ReplaceZ(since) ==
    [i \in DOMAIN since |-> IF since[i] = "Z" THEN "+00:00" ELSE since[i]]

\* datetime.fromisoformat(s): a date and time, then an optional UTC offset;
\* ok = FALSE stands for ValueError
fromisoformat(s) ==
    [ok |-> /\ Len(s) \in {1, 2}
            /\ s[1] \in DateTokens
            /\ (Len(s) = 2 => s[2] = "+00:00"),
     t |-> IF s # <<>> THEN DateSeconds(s[1]) ELSE 0,
     aware |-> Len(s) = 2]

issue_data(t, n) ==
    [number |-> n,
     labels |-> NamesOf(t.labels[n], LabelOrder),
     assignees |-> NamesOf(t.assignees[n], LoginOrder),
     created_at |-> CreatedAt(n),
     state |-> "open"]

\* `if issue.pull_request: continue`
IsPullRequest(n) == n \in pull_requests

\* the for loop of GetNewIssues._run over `issues`, `result` so far
RECURSIVE IssueLoop(_, _, _, _)
IssueLoop(t, issues, since, result) ==
    IF issues = <<>> THEN [exc |-> NoException, result |-> result]
    ELSE
    LET issue == Head(issues)
        rest == Tail(issues)
        since_dt == fromisoformat(ReplaceZ(since))
    IN  IF IsPullRequest(issue)
        THEN IssueLoop(t, rest, since, result)
        ELSE IF since # <<>> /\ since_dt.ok
        THEN \* issue.created_at < since_dt
             IF since_dt.aware # created_at_aware
             THEN \* can't compare offset-naive and offset-aware datetimes
                  [exc |-> OtherException("TypeError", "created_at < since_dt"),
                   result |-> result]
             ELSE IF CreatedAt(issue) < since_dt.t
             THEN IssueLoop(t, rest, since, result)
             ELSE IssueLoop(t, rest, since, Append(result, issue_data(t, issue)))
        ELSE \* no since, or ValueError: pass
             IssueLoop(t, rest, since, Append(result, issue_data(t, issue)))

\* the items with no labels or no assignees
NeedsProcessing(result) ==
    SelectSeq(result, LAMBDA item : item.labels = <<>> \/ item.assignees = <<>>)

GetNewIssuesBody(t, token, fault, repository, since) ==
    IF TokenMissing(token)
    THEN Returned(CredentialMissingText, t, 0, 0, NoLocals)
    ELSE IF get_repo(fault, repository) # NoException
    THEN Raises(get_repo(fault, repository), t, 1, 0, NoLocals)
    ELSE
    LET loop == IssueLoop(t, RecentIssues(get_issues), since, <<>>)
    IN  IF loop.exc # NoException
        THEN Raises(loop.exc, t, 2, 0, NoLocals)
        ELSE IF loop.result = <<>>
        THEN Returned(Text("EmptyListing", "No", " new issues found."),
                      t, 2, 0, NoLocals)
        ELSE Returned(
               [Text("Listing", "Found", " {len(result)} open issues.\n...")
                  EXCEPT !.items = loop.result,
                         !.needs_processing = Len(NeedsProcessing(loop.result))],
               t, 2, 0, NoLocals)

\* the except clauses of GetNewIssues._run
GetNewIssuesExceptGithubOnly(e) ==
    IF e.type = "GithubException"
    THEN [Text("GithubApiError", "GitHub API Error:", " {str(e)}")
            EXCEPT !.detail = e]
    ELSE RaisedText(e)
GetNewIssuesExcept(e) ==
    IF e.type = "GithubException"
    THEN [Text("GithubApiError", "GitHub API Error:", " {str(e)}")
            EXCEPT !.detail = e]
    ELSE [Text("UnexpectedError", "Error fetching issues:", " {str(e)}")
            EXCEPT !.detail = e]

GetNewIssuesRun(t, token, fault, repository, since) ==
    LET b == GetNewIssuesBody(t, token, fault, repository, since)
    IN  [b EXCEPT !.ret = IF b.exc = NoException THEN b.ret
                          ELSE GetNewIssuesExcept(b.exc)]

----------------------------------------------------------------------------
(* The call record *)

Idle ==
    [op |-> "idle", repository |-> "", issue_number |-> 0, names |-> <<>>,
     comment |-> <<>>, since |-> <<>>, fault |-> "none", before |-> Tracker,
     result |-> NoText, raised |-> NoException, calls |-> 0, writes |-> 0,
     existing |-> <<>>, to_add |-> <<>>]

\* the tracker and the call record after a call came to `out`
Finish(call, out) ==
    /\ issue_labels' = out.t.labels
    /\ issue_assignees' = out.t.assignees
    /\ issue_comments' = out.t.comments
    /\ last' = [call EXCEPT !.before = Tracker, !.result = out.ret,
                            !.raised = out.seen, !.calls = out.calls,
                            !.writes = out.writes, !.existing = out.existing,
                            !.to_add = out.to_add]
    /\ UNCHANGED <<GITHUB_TOKEN, created_at_aware, numEntities, pull_requests,
                   closed, catalog>>

\* the comment streams stay within the model's bound
WithinBounds(out) ==
    \A n \in DOMAIN out.t.comments : Len(out.t.comments[n]) <= MaxComments

ReadFaults == {"none", "server_error", "network"}

GetNewIssues ==
    /\ last.op = "idle"
    /\ \E repository \in Repositories, since \in SinceValues,
          fault \in ReadFaults :
         Finish([Idle EXCEPT !.op = "get_new_issues",
                             !.repository = repository,
                             !.since = since, !.fault = fault],
                GetNewIssuesRun(Tracker, GITHUB_TOKEN, fault, repository, since))

AddLabelToIssue ==
    /\ last.op = "idle"
    /\ \E repository \in Repositories, issue_number \in IssueNumbers,
          labels \in SeqsUpTo(LabelNames, MaxLen), fault \in Faults :
         Finish([Idle EXCEPT !.op = "add_label_to_issue",
                             !.repository = repository,
                             !.issue_number = issue_number,
                             !.names = labels, !.fault = fault],
                AddLabelToIssueRun(Tracker, GITHUB_TOKEN, fault, repository,
                                   issue_number, labels))

AssignIssue ==
    /\ last.op = "idle"
    /\ \E repository \in Repositories, issue_number \in IssueNumbers,
          assignees \in SeqsUpTo(Logins, MaxLen), fault \in Faults :
         Finish([Idle EXCEPT !.op = "assign_issue",
                             !.repository = repository,
                             !.issue_number = issue_number,
                             !.names = assignees, !.fault = fault],
                AssignIssueRun(Tracker, GITHUB_TOKEN, fault, repository,
                               issue_number, assignees))

CommentOnIssue ==
    /\ last.op = "idle"
    /\ \E repository \in Repositories, issue_number \in IssueNumbers,
          comment \in CommentBodies, fault \in Faults :
         LET out == CommentOnIssueRun(Tracker, GITHUB_TOKEN, fault, repository,
                                      issue_number, comment)
         IN  /\ WithinBounds(out)
             /\ Finish([Idle EXCEPT !.op = "comment_on_issue",
                                    !.repository = repository,
                                    !.issue_number = issue_number,
                                    !.comment = comment, !.fault = fault],
                       out)

\* the crew takes the tool's text; the next task's call may start
ToolReturn ==
    /\ last.op # "idle"
    /\ last' = [Idle EXCEPT !.before = Tracker]
    /\ UNCHANGED <<GITHUB_TOKEN, created_at_aware, numEntities, pull_requests,
                   closed, catalog, issue_labels, issue_assignees, issue_comments>>

----------------------------------------------------------------------------
(* The four tools on a tracker that holds one entity, in any state *)

Tokens == { [set |-> FALSE, value |-> ""], [set |-> TRUE, value |-> ""],
            [set |-> TRUE, value |-> "ghp_example"] }

IdleOver(lbls, asgs, cmts) ==
    [Idle EXCEPT !.before = [labels |-> lbls, assignees |-> asgs, comments |-> cmts]]

Init ==
    /\ GITHUB_TOKEN \in Tokens
    /\ created_at_aware \in BOOLEAN
    /\ numEntities = 1
    /\ pull_requests \in SUBSET {1}
    /\ closed = {}
    /\ catalog = InitialCatalog
    /\ issue_labels \in [1..1 -> SUBSET InitialCatalog]
    /\ issue_assignees \in [1..1 -> SUBSET Assignable]
    /\ issue_comments = [n \in 1..1 |-> <<>>]
    /\ last = IdleOver(issue_labels, issue_assignees, issue_comments)

Next ==
    \/ GetNewIssues
    \/ AddLabelToIssue
    \/ AssignIssue
    \/ CommentOnIssue
    \/ ToolReturn

Spec == Init /\ [][Next]_vars

----------------------------------------------------------------------------
(* GetNewIssues on trackers of up to MaxEntities entities *)

PullRequestCandidates == {1, 2, 3, Window + 1}
ClosedCandidates == {4}

InitList ==
    /\ GITHUB_TOKEN = [set |-> TRUE, value |-> "ghp_example"]
    /\ created_at_aware \in BOOLEAN
    /\ numEntities \in 0..MaxEntities
    /\ pull_requests \in SUBSET (PullRequestCandidates \cap 1..numEntities)
    /\ closed \in SUBSET (ClosedCandidates \cap 1..numEntities)
    /\ catalog = InitialCatalog
    /\ issue_labels = [n \in 1..numEntities |-> IF n % 2 = 0 THEN {"bug"} ELSE {}]
    /\ issue_assignees = [n \in 1..numEntities |-> IF n % 3 = 0 THEN {"alice"} ELSE {}]
    /\ issue_comments = [n \in 1..numEntities |-> <<>>]
    /\ last = IdleOver(issue_labels, issue_assignees, issue_comments)

NextList ==
    \/ GetNewIssues
    \/ ToolReturn

SpecList == InitList /\ [][NextList]_vars

----------------------------------------------------------------------------
(* Properties *)

\* the call reached the issue: a token, the remote up, the repository and the
\* issue there
ReachedIssue ==
    /\ GITHUB_TOKEN.set /\ GITHUB_TOKEN.value # ""
    /\ last.fault \notin {"server_error", "network"}
    /\ last.repository \in ExistingRepositories
    /\ last.issue_number \in 1..numEntities

LabelsBefore == last.before.labels[last.issue_number]
AssigneesBefore == last.before.assignees[last.issue_number]

\* C1: a merge_labels call that succeeds returns as current labels a set that
\* contains the labels E the issue had, and that equals E \cup L when every
\* requested label is in the catalog.
C1_ReturnedLabelsAreTheUnion ==
    (last.op = "add_label_to_issue" /\ last.result.kind \in {"Added", "NoOp"}) =>
        /\ LabelsBefore \subseteq Range(last.result.current)
        /\ (Range(last.names) \subseteq catalog =>
              Range(last.result.current) = LabelsBefore \cup Range(last.names))

\* C2: when a requested label that is not on the issue is absent from the
\* catalog, the call writes nothing, adds no label (the valid ones included),
\* leaves the catalog as it was, and returns the validation error naming
\* exactly the requested labels that are neither on the issue nor in the catalog.
C2_InvalidLabelsRejectedWhole ==
    (/\ last.op = "add_label_to_issue"
     /\ ReachedIssue
     /\ (Range(last.names) \ LabelsBefore) \ catalog # {}) =>
        /\ last.writes = 0
        /\ Tracker = last.before
        /\ catalog = InitialCatalog
        /\ last.result.kind = "InvalidLabels"
        /\ last.result.marker = "Error:"
        /\ Range(last.result.names) = (Range(last.names) \ LabelsBefore) \ catalog

C2_Witness ==
    /\ last.op = "add_label_to_issue"
    /\ last.result.kind = "InvalidLabels"
    /\ last.names = <<"bug", "ghost-label">>
    /\ LabelsBefore = {}
    /\ last.result.names = <<"ghost-label">>
    /\ issue_labels[1] = {}

\* C3: with GITHUB_TOKEN unset or empty, each of the four tools returns the
\* credential-missing error and makes no remote call, whatever its arguments.
C3_NoTokenNoRemoteCall ==
    (last.op # "idle" /\ (~GITHUB_TOKEN.set \/ GITHUB_TOKEN.value = "")) =>
        /\ last.result = CredentialMissingText
        /\ last.calls = 0
        /\ last.writes = 0
        /\ Tracker = last.before

C3_Witness ==
    /\ last.op = "comment_on_issue"
    /\ last.comment = <<>>
    /\ GITHUB_TOKEN.set /\ GITHUB_TOKEN.value = ""
    /\ last.result.kind = "CredentialMissing"

\* C4: with a token, a comment that is empty or all whitespace gets the
\* "Comment cannot be empty" error before any remote call: no call, no write,
\* comment streams unchanged, whatever the repository and the issue number.
C4_BlankCommentRejectedFirst ==
    (/\ last.op = "comment_on_issue"
     /\ GITHUB_TOKEN.set /\ GITHUB_TOKEN.value # ""
     /\ \A i \in DOMAIN last.comment : last.comment[i] \in Whitespace) =>
        /\ last.result.kind = "EmptyComment"
        /\ last.result.marker = "Error:"
        /\ last.calls = 0
        /\ last.writes = 0
        /\ Tracker = last.before

C4_Witness ==
    /\ last.op = "comment_on_issue"
    /\ last.comment = <<" ", "\n">>
    /\ last.repository \notin ExistingRepositories
    /\ last.issue_number \notin 1..numEntities
    /\ last.fault = "network"
    /\ last.result.kind = "EmptyComment"

\* the same assign_issue call made again, right after the one that returned
AssignAgain ==
    AssignIssueRun(Tracker, GITHUB_TOKEN, last.fault, last.repository,
                   last.issue_number, last.names)

\* C5: a second merge_assignees call with the same arguments leaves the
\* assignees as the first call left them, and after a first call that
\* succeeded it takes the no-op path and writes nothing.
C5_AssignTwiceIsAssignOnce ==
    last.op = "assign_issue" =>
        /\ AssignAgain.t = Tracker
        /\ (last.result.kind \in {"Added", "NoOp"} =>
              /\ AssignAgain.ret.kind = "NoOp"
              /\ AssignAgain.writes = 0
              /\ AssignAgain.ret.current = last.result.current)

C5_Witness ==
    /\ last.op = "assign_issue"
    /\ last.result.kind = "Added"
    /\ last.names = <<"alice", "alice">>
    /\ AssigneesBefore = {}
    /\ issue_assignees[1] = {"alice"}
    /\ AssignAgain.ret.kind = "NoOp"

\* the text a tool returns, interpolated values aside
Outcome(text) == <<text.marker, text.message>>

\* what the tool of the last call returns when its remote write raises
\* GithubException with `status`
OutcomeOfStatus(status) ==
    LET e == GithubException(status, "write")
    IN  IF last.op = "add_label_to_issue"
        THEN Outcome(AddLabelToIssueExcept(e, last.repository, last.issue_number))
        ELSE IF last.op = "assign_issue"
        THEN IF AssignIssueInnerExcept(e, last.to_add).kind # "Raised"
             THEN Outcome(AssignIssueInnerExcept(e, last.to_add))
             ELSE Outcome(AssignIssueExcept(e, last.repository, last.issue_number))
        ELSE Outcome(CommentOnIssueExcept(e, last.repository, last.issue_number))

WritingTools == {"add_label_to_issue", "assign_issue", "comment_on_issue"}
RemoteStatuses == {404, 422, 403, 500}

\* C6 as stated: in each of the three writing tools, 404, 422 and 403 each get
\* an outcome of their own, different from the other statuses' and from the
\* catch-all's (500).
C6_EveryStatusHasItsOwnOutcome ==
    (/\ last.op \in WritingTools
     /\ last.raised.type = "GithubException"
     /\ last.raised.status \in {404, 422, 403}) =>
        \A other \in RemoteStatuses \ {last.raised.status} :
            Outcome(last.result) # OutcomeOfStatus(other)

\* the statuses a tool gives an outcome of their own
OwnOutcome(op) ==
    IF op = "comment_on_issue" THEN {404, 403} ELSE {404, 422}

\* C6 amended: 404 gets its own outcome in the three writing tools, 422 in
\* add_label_to_issue and assign_issue, 403 in comment_on_issue; a 403 in
\* add_label_to_issue or assign_issue and a 422 in comment_on_issue get the
\* catch-all "GitHub API Error" outcome, the one a 500 gets.
C6_StatusOutcomesPerTool ==
    (/\ last.op \in WritingTools
     /\ last.raised.type = "GithubException") =>
        IF last.raised.status \in OwnOutcome(last.op)
        THEN /\ last.result.marker = "Error:"
             /\ \A other \in RemoteStatuses \ {last.raised.status} :
                    Outcome(last.result) # OutcomeOfStatus(other)
        ELSE /\ last.result.marker = "GitHub API Error:"
             /\ Outcome(last.result) = OutcomeOfStatus(500)

C6_Witness ==
    /\ last.op = "add_label_to_issue"
    /\ last.raised = GithubException(403, "add_to_labels")
    /\ last.result.kind = "GithubApiError"
    /\ Outcome(last.result) = OutcomeOfStatus(500)

\* a `since` argument in ISO-8601: a date and time, then nothing, Z or +00:00
IsIso8601(since) ==
    /\ Len(since) \in {1, 2}
    /\ since[1] \in DateTokens
    /\ (Len(since) = 2 => since[2] \in {"Z", "+00:00"})

\* the listing the same call returns without `since`
ListingWithoutSince ==
    GetNewIssuesRun(last.before, GITHUB_TOKEN, last.fault, last.repository, <<>>).ret

OpenEntities == {n \in 1..numEntities : n \notin closed}
NewestOpen ==
    {n \in OpenEntities :
        Cardinality({m \in OpenEntities : CreatedAt(m) > CreatedAt(n)}) < Window}

\* C8: get_new_issues never returns a pull request; what it returns is among
\* the 20 most recently created open entities, newest first, and without
\* `since` it is all of them that are not pull requests.
C8_NoPullRequestsWithinWindow ==
    last.op = "get_new_issues" =>
        LET items == last.result.items
        IN  /\ \A i \in DOMAIN items :
                 /\ items[i].number \notin pull_requests
                 /\ items[i].number \in NewestOpen
            /\ \A i, j \in DOMAIN items :
                 i < j => items[i].created_at > items[j].created_at
            /\ (last.since = <<>> /\ last.raised = NoException) =>
                 {items[i].number : i \in DOMAIN items} = NewestOpen \ pull_requests

C8_Witness ==
    /\ last.op = "get_new_issues"
    /\ last.since = <<>>
    /\ last.result.kind = "Listing"
    /\ numEntities > Window
    /\ (Window + 1) \in pull_requests
    /\ 1 \notin pull_requests
    /\ 1 \notin NewestOpen
    /\ Len(last.result.items) = Window - 1

\* the last call failed: no credential, a remote call raised, or an argument
\* was refused
CallFailed ==
    \/ ~GITHUB_TOKEN.set \/ GITHUB_TOKEN.value = ""
    \/ last.raised # NoException
    \/ /\ last.op = "comment_on_issue"
       /\ \A i \in DOMAIN last.comment : last.comment[i] \in Whitespace
    \/ /\ last.op = "add_label_to_issue"
       /\ ReachedIssue
       /\ (Range(last.names) \ LabelsBefore) \ catalog # {}

FailureMarkers ==
    {"Error:", "GitHub API Error:", "Error fetching issues:",
     "Error adding labels:", "Error assigning issue:", "Error adding comment:"}

\* C9: every call returns a text, whatever fails, and the text begins with a
\* failure marker exactly when the call failed.
C9_FailuresReturnedAndMarked ==
    last.op # "idle" =>
        /\ last.result.kind \notin {"Raised", "none"}
        /\ CallFailed <=> last.result.marker \in FailureMarkers

C9_Witness ==
    /\ last.op = "get_new_issues"
    /\ last.raised.type = "TypeError"
    /\ last.result.marker = "Error fetching issues:"

\* C10: no step removes a label or an assignee from any issue, and a
\* get_new_issues call changes nothing on the tracker.
C10_LabelsAndAssigneesOnlyGrow ==
    [][ /\ DOMAIN issue_labels' = DOMAIN issue_labels
        /\ \A n \in DOMAIN issue_labels :
             /\ issue_labels[n] \subseteq issue_labels'[n]
             /\ issue_assignees[n] \subseteq issue_assignees'[n]
        /\ (last'.op = "get_new_issues" =>
              UNCHANGED <<issue_labels, issue_assignees, issue_comments, catalog>>)
      ]_vars

C10_Witness ==
    /\ last.op = "add_label_to_issue"
    /\ last.result.kind = "Added"
    /\ LabelsBefore = {"enhancement"}
    /\ last.names = <<"bug">>
    /\ issue_labels[1] = {"bug", "enhancement"}
====
